---------------------------- MODULE Spec2Model ----------------------------
(***************************************************************************)
(* Flash-report generator (scripts/generate_ppt.py): the text-fitting      *)
(* functions, the position-based shape matching of verify_template and     *)
(* populate_project_slide, and the assembly of the deck by generate_ppt;   *)
(* and the status polling of the generation API client                     *)
(* (scripts/generate_ppt_gamma.py).  Each part has its own specification.  *)
(*                                                                         *)
(* A text is a sequence of one-character strings.  Lengths and coordinates *)
(* are integers: shape coordinates are kept in thousandths of an inch as   *)
(* read from the file, in hundredths after round(.., 2) and in tenths      *)
(* after round(.., 1).                                                     *)
(***************************************************************************)
EXTENDS Integers, Sequences, FiniteSets, TLC

VARIABLES
    \* fit_text_to_shape: its arguments, its result, and the result of
    \* fitting that result again
    ft_text, ft_field, ft_prefix, ft_out, ft_again, ft_pc,
    \* the text shapes and pictures of template slide 0, in enumeration order
    slide, n_slides,
    \* verify_template
    shape_positions, detected_positions, matched, drifted, missing,
    new_shapes, matched_count, is_valid, vt_i, vt_pc,
    \* populate_project_slide
    shape_map, found, written, pp_i, pp_pc,
    \* truncate_text and truncate_lines called on their own
    tr_text, tr_max_chars, tr_ellipsis, tr_max_lines, tr_max_chars_per_line,
    tr_out, tr_pc,
    \* poll_generation (generate_ppt_gamma.py)
    poll_attempt, poll_response, poll_seen, poll_result, poll_error, poll_pc,
    \* generate_ppt: the template file, the projects, the deck being built
    template_exists, template_slides, num_projects, prs_slides, gen_idx,
    saved_slides, gen_result, gen_raised, gen_pc,
    \* the projects of the data file; the module globals UNFILLED_FIELDS and
    \* TEMPLATE_STYLES['extracted']
    projects, UNFILLED_FIELDS, styles_extracted,
    \* the next-steps block of populate_project_slide
    decisions, milestones, next_shape, next_items, ns_pc,
    \* main of the Gamma client
    GAMMA_API_KEY, data_found, generation_id, gm_error, export_url, posts,
    downloads, exit_status, gm_pc

fit_vars == <<ft_text, ft_field, ft_prefix, ft_out, ft_again, ft_pc>>
slide_vars == <<slide, n_slides>>
verify_vars == <<shape_positions, detected_positions, matched, drifted,
                 missing, new_shapes, matched_count, is_valid, vt_i, vt_pc>>
populate_vars == <<shape_map, found, written, pp_i, pp_pc>>
trunc_vars == <<tr_text, tr_max_chars, tr_ellipsis, tr_max_lines,
               tr_max_chars_per_line, tr_out, tr_pc>>
poll_vars == <<poll_attempt, poll_response, poll_seen, poll_result,
              poll_error, poll_pc>>
gen_vars == <<template_exists, template_slides, num_projects, prs_slides,
             gen_idx, saved_slides, gen_result, gen_raised, gen_pc,
             projects, UNFILLED_FIELDS, styles_extracted>>
ns_vars == <<decisions, milestones, next_shape, next_items, ns_pc>>
gm_vars == <<GAMMA_API_KEY, data_found, generation_id, gm_error, export_url,
            posts, downloads, exit_status, gm_pc>>
vars == <<fit_vars, slide_vars, verify_vars, populate_vars, trunc_vars,
          poll_vars, gen_vars, ns_vars, gm_vars>>

None == "None"

-----------------------------------------------------------------------------
(* Python's str and list primitives used by the text-fitting functions.    *)

Min(a, b) == IF a < b THEN a ELSE b
Max(a, b) == IF a > b THEN a ELSE b
MaxOf(S) == CHOOSE x \in S : \A y \in S : y <= x

Rep(c, n) == [i \in 1..n |-> c]

\* str.rstrip() strips these (the only whitespace of the modelled alphabet)
Whitespace == {" ", "\n"}

\* s[:n], n possibly negative
PySliceTo(s, n) ==
    IF n >= 0 THEN SubSeq(s, 1, Min(n, Len(s)))
    ELSE SubSeq(s, 1, Max(Len(s) + n, 0))

\* s.rfind(c): the 0-based index of the last c, -1 when there is none
RFind(s, c) ==
    LET hits == {i \in 1..Len(s) : s[i] = c}
    IN  IF hits = {} THEN -1 ELSE MaxOf(hits) - 1

RStrip(s) ==
    LET keep == {i \in 1..Len(s) : s[i] \notin Whitespace}
    IN  IF keep = {} THEN <<>> ELSE SubSeq(s, 1, MaxOf(keep))

EndsWith(s, suf) ==
    /\ Len(s) >= Len(suf)
    /\ SubSeq(s, Len(s) - Len(suf) + 1, Len(s)) = suf

\* s.split('\n')
Split(s) ==
    LET nl == {i \in 1..Len(s) : s[i] = "\n"}
        k == Cardinality(nl)
        pos(j) == IF j = 0 THEN 0
                  ELSE IF j = k + 1 THEN Len(s) + 1
                  ELSE CHOOSE i \in nl : Cardinality({m \in nl : m <= i}) = j
    IN  [j \in 1..(k + 1) |-> SubSeq(s, pos(j - 1) + 1, pos(j) - 1)]

RECURSIVE Join(_)
\* '\n'.join(lines)
Join(lines) ==
    IF lines = <<>> THEN <<>>
    ELSE IF Len(lines) = 1 THEN lines[1]
    ELSE lines[1] \o <<"\n">> \o Join(Tail(lines))

Ellipsis == <<".", ".", ".">>

-----------------------------------------------------------------------------
(* Text-fitting configuration.                                             *)

\* (max_chars_per_line, max_lines, total_char_limit)
TEXT_LIMITS ==
    [title        |-> <<80, 1, 80>>,
     date         |-> <<10, 1, 10>>,
     mood_status  |-> <<50, 3, 120>>,
     scope        |-> <<50, 4, 180>>,
     achievements |-> <<55, 5, 250>>,
     trends       |-> <<50, 3, 120>>,
     next_steps   |-> <<50, 4, 180>>,
     made         |-> <<50, 5, 200>>,
     risks        |-> <<50, 4, 180>>,
     budget       |-> <<45, 6, 220>>]

\* TEXT_LIMITS.get(field_name, (50, 4, 180))
LimitsOf(field_name) ==
    IF field_name \in DOMAIN TEXT_LIMITS THEN TEXT_LIMITS[field_name]
    ELSE <<50, 4, 180>>

FONT_SIZES ==
    [title |-> 14, date |-> 8, content |-> 9, content_small |-> 8,
     content_tiny |-> 7]

MIN_FONT_SIZE == 7

\* The values of max_chars (up to 400) whose double product max_chars * 0.7
\* is rounded below the exact 7 * max_chars / 10, so that a last_space equal
\* to the exact product compares greater than it.
ProductBelow07 == {90, 170, 180, 330, 340, 350, 360}

\* last_space > max_chars * 0.7, in double arithmetic
AboveSpaceThreshold(last_space, max_chars) ==
    \/ 10 * last_space > 7 * max_chars
    \/ /\ 10 * last_space = 7 * max_chars
       /\ max_chars \in ProductBelow07

-----------------------------------------------------------------------------
(* truncate_text, truncate_lines, fit_text_to_shape.                       *)

truncate_text(text, max_chars, ellipsis) ==
    IF text = <<>> \/ Len(text) <= max_chars THEN text
    ELSE LET truncated == PySliceTo(text, max_chars - Len(ellipsis))
             last_space == RFind(truncated, " ")
             broken == IF AboveSpaceThreshold(last_space, max_chars)
                       THEN PySliceTo(truncated, last_space)
                       ELSE truncated
         IN  RStrip(broken) \o ellipsis

\* The last kept line after lines were dropped: `kept` is lines[:max_lines].
CapLastLine(kept) ==
    LET n == Len(kept)
    IN  IF n > 0 /\ kept[n] # <<>> /\ ~EndsWith(kept[n], Ellipsis)
        THEN LET stripped == RStrip(kept[n])
             IN  IF Len(stripped) > 3
                 THEN [kept EXCEPT ![n] = PySliceTo(stripped, -3) \o Ellipsis]
                 ELSE [kept EXCEPT ![n] = stripped] \o <<Ellipsis>>
        ELSE kept

\* truncate_lines without the truncation of each line
truncate_lines_Uncut(text, max_lines, max_chars_per_line) ==
    IF text = <<>> THEN <<>>
    ELSE LET lines == Split(text)
             capped == IF Len(lines) > max_lines
                       THEN CapLastLine(PySliceTo(lines, max_lines))
                       ELSE lines
         IN  Join(capped)

truncate_lines(text, max_lines, max_chars_per_line) ==
    IF text = <<>> THEN <<>>
    ELSE LET lines == Split(text)
             cut == IF max_chars_per_line # 0
                    THEN [i \in 1..Len(lines) |->
                            IF Len(lines[i]) > max_chars_per_line
                            THEN truncate_text(lines[i], max_chars_per_line, Ellipsis)
                            ELSE lines[i]]
                    ELSE lines
             capped == IF Len(cut) > max_lines
                       THEN CapLastLine(PySliceTo(cut, max_lines))
                       ELSE cut
         IN  Join(capped)

\* The smaller size only above 90% of the budget, in the place of 80%
FontFor_Ninety(n, total_limit) ==
    IF 100 * n > 95 * total_limit THEN FONT_SIZES.content_tiny
    ELSE IF 10 * n > 9 * total_limit THEN FONT_SIZES.content_small
    ELSE FONT_SIZES.content

\* The recommended font size for a fitted text of length n
FontFor(n, total_limit) ==
    IF 100 * n > 95 * total_limit THEN FONT_SIZES.content_tiny
    ELSE IF 10 * n > 8 * total_limit THEN FONT_SIZES.content_small
    ELSE FONT_SIZES.content

fit_text_to_shape(text, field_name, add_prefix_newline) ==
    IF text = <<>>
    THEN [text |-> IF add_prefix_newline THEN <<"\n">> ELSE <<>>,
          font_size |-> FONT_SIZES.content]
    ELSE LET limits == LimitsOf(field_name)
             max_chars_per_line == limits[1]
             max_lines == limits[2]
             total_limit == limits[3]
             t1 == IF Len(text) > total_limit
                   THEN truncate_text(text, total_limit, Ellipsis)
                   ELSE text
             t2 == truncate_lines(t1, max_lines, max_chars_per_line)
         IN  [text |-> IF add_prefix_newline THEN <<"\n">> \o t2 ELSE t2,
              font_size |-> FontFor(Len(t2), total_limit)]

-----------------------------------------------------------------------------
(* The texts given to fit_text_to_shape: a body line repeated up to        *)
(* MaxBodyLines times, followed by at most two more lines.                 *)

MaxBodyLines == 4

BodyLines ==
    {Rep("a", 48), Rep("a", 40), Rep("a", 40) \o <<" ">> \o Rep("a", 19)}

TailLines ==
    {<<>>, <<" ", " ">>, Rep("a", 3), Rep("a", 4) \o <<" ", " ">>,
     <<"a", "a", ".", ".", ".">>, Rep("a", 60) \o <<" ">> \o Rep("a", 29)}

TailSeqs ==
    {<<>>} \cup {<<l>> : l \in TailLines}
           \cup {<<l, m>> : l \in TailLines, m \in TailLines}

InputTexts ==
    {Join(Rep(body, k) \o tail) :
        k \in 0..MaxBodyLines, body \in BodyLines, tail \in TailSeqs}

\* The ten fields of TEXT_LIMITS, and 'info', which has no entry
FieldNames == DOMAIN TEXT_LIMITS \cup {"info"}

NoResult == [text |-> <<>>, font_size |-> 0]

-----------------------------------------------------------------------------
(* Specification SpecFit: one call of fit_text_to_shape, then a second     *)
(* call on the text the first one returned.                                *)

FitIdle ==
    /\ ft_text = <<>> /\ ft_field = None /\ ft_prefix = FALSE
    /\ ft_out = NoResult /\ ft_again = NoResult /\ ft_pc = "idle"

SlideIdle == slide = <<>> /\ n_slides = 0

VerifyIdle ==
    /\ shape_positions = <<>> /\ detected_positions = <<>>
    /\ matched = <<>> /\ drifted = <<>> /\ missing = <<>> /\ new_shapes = <<>>
    /\ matched_count = 0 /\ is_valid = FALSE /\ vt_i = 0 /\ vt_pc = "idle"

PopulateIdle ==
    /\ shape_map = <<>> /\ found = <<>> /\ written = <<>>
    /\ pp_i = 0 /\ pp_pc = "idle"

TruncIdle ==
    /\ tr_text = <<>> /\ tr_max_chars = 0 /\ tr_ellipsis = <<>>
    /\ tr_max_lines = 0 /\ tr_max_chars_per_line = 0
    /\ tr_out = <<>> /\ tr_pc = "idle"

\* No response body (None), and no error (None)
NoResponse == [status_code |-> 0, status |-> None, error |-> None]
NoError == [kind |-> None, detail |-> None, seconds |-> 0]

PollIdle ==
    /\ poll_attempt = 0 /\ poll_response = NoResponse /\ poll_seen = {}
    /\ poll_result = NoResponse /\ poll_error = NoError /\ poll_pc = "idle"

GenIdle ==
    /\ template_exists = FALSE /\ template_slides = 0 /\ num_projects = 0
    /\ prs_slides = <<>> /\ gen_idx = 0 /\ saved_slides = <<>>
    /\ gen_result = None /\ gen_raised = None /\ gen_pc = "idle"
    /\ projects = <<>> /\ UNFILLED_FIELDS = <<>> /\ styles_extracted = FALSE

NextStepsIdle ==
    /\ decisions = <<>> /\ milestones = <<>> /\ next_shape = FALSE
    /\ next_items = <<>> /\ ns_pc = "idle"

\* exit_status while the process has not terminated
Running == -1

GammaIdle ==
    /\ GAMMA_API_KEY = FALSE /\ data_found = FALSE
    /\ generation_id = None /\ gm_error = None /\ export_url = None
    /\ posts = 0 /\ downloads = 0 /\ exit_status = Running
    /\ gm_pc = "idle"

InitFit ==
    /\ ft_text \in InputTexts
    /\ ft_field \in FieldNames
    /\ ft_prefix \in BOOLEAN
    /\ ft_out = NoResult /\ ft_again = NoResult
    /\ ft_pc = "input"
    /\ SlideIdle /\ VerifyIdle /\ PopulateIdle /\ TruncIdle
    /\ PollIdle /\ NextStepsIdle /\ GammaIdle
    /\ GenIdle

Fit ==
    /\ ft_pc = "input"
    /\ ft_out' = fit_text_to_shape(ft_text, ft_field, ft_prefix)
    /\ ft_pc' = "fitted"
    /\ UNCHANGED <<ft_text, ft_field, ft_prefix, ft_again>>
    /\ UNCHANGED <<slide_vars, verify_vars, populate_vars, trunc_vars,
                   poll_vars, gen_vars, ns_vars, gm_vars>>

Refit ==
    /\ ft_pc = "fitted"
    /\ ft_again' = fit_text_to_shape(ft_out.text, ft_field, ft_prefix)
    /\ ft_pc' = "refitted"
    /\ UNCHANGED <<ft_text, ft_field, ft_prefix, ft_out>>
    /\ UNCHANGED <<slide_vars, verify_vars, populate_vars, trunc_vars,
                   poll_vars, gen_vars, ns_vars, gm_vars>>

NextFit == Fit \/ Refit

SpecFit == InitFit /\ [][NextFit]_vars

\* Number of lines of a text ('' has one line, as ''.split('\n') has)
LineCount(t) == Len(Split(t))

-----------------------------------------------------------------------------
(* Claims about text fitting.                                              *)

\* C1: the text returned by fit_text_to_shape is never longer than the
\* field's total character budget.
C1_WithinTotalBudget ==
    ft_pc # "input" /\ ft_pc # "idle"
        => Len(ft_out.text) <= LimitsOf(ft_field)[3]

\* C2: the text returned by fit_text_to_shape never has more lines than the
\* field's max_lines.
C2_WithinMaxLines ==
    ft_pc # "input" /\ ft_pc # "idle"
        => LineCount(ft_out.text) <= LimitsOf(ft_field)[2]

\* C3: fitting is idempotent: fitting the fitted text again (without a
\* prefix newline) returns the same text.
C3_Idempotent ==
    ft_pc = "refitted" /\ ~ft_prefix => ft_again.text = ft_out.text

\* The length of the fitted text, the optional prefix newline not counted
FittedLen(out, prefix) == Len(out.text) - (IF prefix THEN 1 ELSE 0)

\* C14: for a non-empty text the recommended font size is 9 when the fitted
\* length is at most 80% of the field's total budget, 8 when it is above 80%
\* and at most 95%, 7 when it is above 95%; it is never below MIN_FONT_SIZE.
C14_FontSizeSteps ==
    ft_pc \in {"fitted", "refitted"} /\ ft_text # <<>> =>
        LET n == FittedLen(ft_out, ft_prefix)
            total == LimitsOf(ft_field)[3]
        IN  /\ 10 * n <= 8 * total => ft_out.font_size = 9
            /\ 10 * n > 8 * total /\ 100 * n <= 95 * total
                  => ft_out.font_size = 8
            /\ 100 * n > 95 * total => ft_out.font_size = 7
            /\ ft_out.font_size >= MIN_FONT_SIZE

\* A fitted text above 80% of its budget (and at most 95%) gets size 8
C14_Witness ==
    /\ ft_pc = "fitted"
    /\ ft_text # <<>>
    /\ ft_out.font_size = 8
    /\ 10 * FittedLen(ft_out, ft_prefix) > 8 * LimitsOf(ft_field)[3]

\* The returned text without the optional prefix newline
FittedBody(out, prefix) == IF prefix THEN Tail(out.text) ELSE out.text

\* C19: for every field of TEXT_LIMITS, no line of the fitted text (the
\* prefix newline apart) is longer than the field's max_chars_per_line.
C19_LinesWithinPerLine ==
    ft_pc \in {"fitted", "refitted"} /\ ft_field \in DOMAIN TEXT_LIMITS =>
        LET lines == Split(FittedBody(ft_out, ft_prefix))
        IN  \A i \in 1..Len(lines) :
                Len(lines[i]) <= TEXT_LIMITS[ft_field][1]

\* A text within the total budget has a line longer than max_chars_per_line,
\* and that line comes back cut to exactly max_chars_per_line, ellipsis
\* included, followed by further lines
C19_Witness ==
    /\ ft_pc = "fitted"
    /\ ft_field \in DOMAIN TEXT_LIMITS
    /\ Len(ft_text) <= TEXT_LIMITS[ft_field][3]
    /\ LET before == Split(ft_text)
           after == Split(FittedBody(ft_out, ft_prefix))
       IN  /\ Len(after) > 1
           /\ Len(before[1]) > TEXT_LIMITS[ft_field][1]
           /\ Len(after[1]) = TEXT_LIMITS[ft_field][1]
           /\ EndsWith(after[1], Ellipsis)

-----------------------------------------------------------------------------
(* Specification SpecTrunc: one call of truncate_text, or one call of      *)
(* truncate_lines, on every short text over a four-character alphabet; and *)
(* truncate_text on longer texts at the budget of the 'scope' field, with  *)
(* the last space around 70% of the budget.                                *)

MaxTextLen == 5
MaxCharsArg == 5
MaxLinesArg == 2

Alphabet == {"a", " ", "\n", "."}

SmallTexts == UNION {[1..n -> Alphabet] : n \in 0..MaxTextLen}

\* The default ellipsis, none, and a one-character one
Ellipses == {Ellipsis, <<>>, <<".">>}

\* A word, one space at index k, and a word too long for the budget to hold
LongTexts ==
    {Rep("a", k) \o <<" ">> \o Rep("a", 60) :
        k \in {(7 * TEXT_LIMITS.scope[3]) \div 10 + d : d \in {-1, 0, 1}}}

\* max_chars_per_line: None (0) or 4
PerLineLimits == {0, 4}

InitTrunc ==
    /\ \/ /\ tr_pc = "text"
          /\ \/ tr_text \in SmallTexts /\ tr_max_chars \in 0..MaxCharsArg
             \/ tr_text \in LongTexts /\ tr_max_chars = TEXT_LIMITS.scope[3]
          /\ tr_ellipsis \in Ellipses
          /\ tr_max_lines = 0 /\ tr_max_chars_per_line = 0
       \/ /\ tr_pc = "lines"
          /\ tr_text \in SmallTexts
          /\ tr_max_lines \in 1..MaxLinesArg
          /\ tr_max_chars_per_line \in PerLineLimits
          /\ tr_max_chars = 0 /\ tr_ellipsis = <<>>
    /\ tr_out = <<>>
    /\ FitIdle /\ SlideIdle /\ VerifyIdle /\ PopulateIdle
    /\ PollIdle /\ NextStepsIdle /\ GammaIdle
    /\ GenIdle

TruncateText ==
    /\ tr_pc = "text"
    /\ tr_out' = truncate_text(tr_text, tr_max_chars, tr_ellipsis)
    /\ tr_pc' = "text_done"
    /\ UNCHANGED <<tr_text, tr_max_chars, tr_ellipsis, tr_max_lines,
                   tr_max_chars_per_line>>
    /\ UNCHANGED <<fit_vars, slide_vars, verify_vars, populate_vars,
                   poll_vars, gen_vars, ns_vars, gm_vars>>

TruncateLines ==
    /\ tr_pc = "lines"
    /\ tr_out' = truncate_lines(tr_text, tr_max_lines, tr_max_chars_per_line)
    /\ tr_pc' = "lines_done"
    /\ UNCHANGED <<tr_text, tr_max_chars, tr_ellipsis, tr_max_lines,
                   tr_max_chars_per_line>>
    /\ UNCHANGED <<fit_vars, slide_vars, verify_vars, populate_vars,
                   poll_vars, gen_vars, ns_vars, gm_vars>>

NextTrunc == TruncateText \/ TruncateLines

SpecTrunc == InitTrunc /\ [][NextTrunc]_vars

-----------------------------------------------------------------------------
(* Claims about truncate_text and truncate_lines.                          *)

\* C12: truncate_text returns at most max_chars characters; a text longer
\* than max_chars comes back ending with the ellipsis, any other text comes
\* back unchanged.
C12_AtMostMaxChars ==
    tr_pc = "text_done" =>
        /\ Len(tr_out) <= tr_max_chars
        /\ Len(tr_text) > tr_max_chars => EndsWith(tr_out, tr_ellipsis)
        /\ Len(tr_text) <= tr_max_chars => tr_out = tr_text

\* C13: whenever truncate_lines drops lines, the text it returns ends with
\* '...' and that ellipsis is in the last kept line, line number max_lines.
C13_EllipsisInLastKeptLine ==
    tr_pc = "lines_done" /\ LineCount(tr_text) > tr_max_lines =>
        /\ EndsWith(tr_out, Ellipsis)
        /\ LineCount(tr_out) = tr_max_lines

\* The first n characters of s (none when n is not positive)
FirstChars(s, n) == SubSeq(s, 1, Max(0, Min(n, Len(s))))

\* C18: a truncated text is the first max_chars - len(ellipsis) characters
\* of the input, cut back to the last space in them if and only if the
\* index of that space is greater than 0.7 * max_chars, stripped of trailing
\* whitespace, followed by the ellipsis.
C18_CutThenWordBreak ==
    tr_pc = "text_done" /\ Len(tr_text) > tr_max_chars =>
        LET hard == FirstChars(tr_text, tr_max_chars - Len(tr_ellipsis))
            last_space == RFind(hard, " ")
            kept == IF 10 * last_space > 7 * tr_max_chars
                    THEN FirstChars(hard, last_space)
                    ELSE hard
        IN  tr_out = RStrip(kept) \o tr_ellipsis

-----------------------------------------------------------------------------
(* Shapes and positions.  A shape of a slide is a record                   *)
(*   [name, left, top, has_text_frame]                                     *)
(* with left and top in thousandths of an inch; name identifies the shape  *)
(* whatever the order in which the slide enumerates its shapes.            *)

\* Expected positions in hundredths of an inch, in the dict's order
EXPECTED_SHAPE_POSITIONS ==
    << [field |-> "title",        x |-> 39,  y |-> 17],
       [field |-> "date",         x |-> 888, y |-> 8],
       [field |-> "mood_status",  x |-> 39,  y |-> 98],
       [field |-> "scope",        x |-> 35,  y |-> 193],
       [field |-> "info",         x |-> 37,  y |-> 215],
       [field |-> "achievements", x |-> 39,  y |-> 316],
       [field |-> "trends",       x |-> 39,  y |-> 432],
       [field |-> "next_steps",   x |-> 39,  y |-> 453],
       [field |-> "made",         x |-> 514, y |-> 100],
       [field |-> "risks",        x |-> 514, y |-> 248],
       [field |-> "budget",       x |-> 513, y |-> 440] >>

\* 0.3 in, in hundredths
POSITION_TOLERANCE == 30

\* 0.05 in, in hundredths: below it a match is perfect, from it on drifted
PERFECT_OFFSET == 5

NumFields == Len(EXPECTED_SHAPE_POSITIONS)

\* Of the coordinates used here (in thousandths), those that lie exactly
\* half way between two tenths: 0.35 and 2.15.  The double nearest to each is
\* below the half, so round(.., 1) rounds them down.
HalvesBelow == {350, 2150}

\* round(v, 2) and round(v, 1) of a length of m thousandths, as a multiple of
\* `unit` thousandths: the nearest one; an exact half goes where the double
\* nearest to the length lies.
RoundTo(m, unit) ==
    LET q == m \div unit
        r == m % unit
    IN  IF 2 * r > unit \/ (2 * r = unit /\ m \notin HalvesBelow)
        THEN q + 1 ELSE q

\* The square of the distance the code computes, in hundredths of an inch.
\* Comparing squares of exact integers agrees with the code's comparisons of
\* double square roots except on exact equality with a threshold or between
\* two different positions; no coordinate used here produces one.
Dist2(x, y, ex, ey) == (x - ex) * (x - ex) + (y - ey) * (y - ey)

-----------------------------------------------------------------------------
(* verify_template                                                         *)

\* shape_positions: the text shapes of slide 0, in enumeration order
ShapePositions(sl) ==
    LET txt == {i \in 1..Len(sl) : sl[i].has_text_frame}
        nth(j) == CHOOSE i \in txt : Cardinality({m \in txt : m <= i}) = j
    IN  [j \in 1..Cardinality(txt) |->
            [name |-> sl[nth(j)].name,
             x |-> RoundTo(sl[nth(j)].left, 10),
             y |-> RoundTo(sl[nth(j)].top, 10),
             matched_to |-> None]]

\* Mutant of BestMatch: shapes matched to an earlier field are not skipped
BestMatch_NoSkip(sps, ex, ey) ==
    LET d(i) == Dist2(sps[i].x, sps[i].y, ex, ey)
    IN  IF sps = <<>> THEN 0
        ELSE CHOOSE i \in 1..Len(sps) :
                \A j \in 1..Len(sps) : d(i) < d(j) \/ (d(i) = d(j) /\ i <= j)

\* Mutant of BestMatch: "dist <= best_distance", the last nearest shape wins
BestMatch_LastWins(sps, ex, ey) ==
    LET free == {i \in 1..Len(sps) : sps[i].matched_to = None}
        d(i) == Dist2(sps[i].x, sps[i].y, ex, ey)
    IN  IF free = {} THEN 0
        ELSE CHOOSE i \in free :
                \A j \in free : d(i) < d(j) \/ (d(i) = d(j) /\ i >= j)

\* The inner loop: the index of the first unmatched shape at the least
\* distance from (ex, ey); 0 when every shape is matched already
BestMatch(sps, ex, ey) ==
    LET free == {i \in 1..Len(sps) : sps[i].matched_to = None}
        d(i) == Dist2(sps[i].x, sps[i].y, ex, ey)
    IN  IF free = {} THEN 0
        ELSE CHOOSE i \in free :
                \A j \in free : d(i) < d(j) \/ (d(i) = d(j) /\ i <= j)

\* Mutant of WithinTolerance: the tolerance test is dropped
WithinTolerance_Dropped(d2) == TRUE

\* best_distance <= POSITION_TOLERANCE
WithinTolerance(d2) == d2 <= POSITION_TOLERANCE * POSITION_TOLERANCE

\* Mutant of IsPerfect: 0.2 in instead of 0.05 in
IsPerfect_Wide(d2) == d2 < 400

\* best_distance < 0.05
IsPerfect(d2) == d2 < PERFECT_OFFSET * PERFECT_OFFSET

\* The report before any field is checked
VerifyStart(sl) ==
    [sps |-> ShapePositions(sl), detected |-> <<>>, matched |-> <<>>,
     drifted |-> <<>>, missing |-> <<>>, count |-> 0]

\* One iteration of the loop over EXPECTED_SHAPE_POSITIONS: field number i
VerifyStep(st, i) ==
    LET e == EXPECTED_SHAPE_POSITIONS[i]
        b == BestMatch(st.sps, e.x, e.y)
        d2 == IF b = 0 THEN 0 ELSE Dist2(st.sps[b].x, st.sps[b].y, e.x, e.y)
    IN  IF b # 0 /\ WithinTolerance(d2)
        THEN LET info == [field |-> e.field,
                          expected |-> <<e.x, e.y>>,
                          actual |-> <<st.sps[b].x, st.sps[b].y>>,
                          offset2 |-> d2,
                          shape_name |-> st.sps[b].name]
             IN  [st EXCEPT
                    !.detected = @ @@ (e.field :> <<st.sps[b].x, st.sps[b].y>>),
                    !.sps = [@ EXCEPT ![b].matched_to = e.field],
                    !.count = @ + 1,
                    !.matched = IF IsPerfect(d2) THEN Append(@, info) ELSE @,
                    !.drifted = IF IsPerfect(d2) THEN @ ELSE Append(@, info)]
        ELSE [st EXCEPT
                !.detected = @ @@ (e.field :> None),
                !.missing = Append(@, [field |-> e.field,
                                       expected |-> <<e.x, e.y>>])]

\* full_report['new_shapes']: the shapes no field was matched to
NewShapes(sps) ==
    LET un == {i \in 1..Len(sps) : sps[i].matched_to = None}
        nth(j) == CHOOSE i \in un : Cardinality({m \in un : m <= i}) = j
    IN  [j \in 1..Cardinality(un) |->
            [name |-> sps[nth(j)].name,
             position |-> <<sps[nth(j)].x, sps[nth(j)].y>>]]

\* A threshold of 0.6 in the place of 0.7
IsValid_Sixty(count) == 10 * count >= 6 * NumFields

\* match_ratio >= 0.7
IsValid(count) == 10 * count >= 7 * NumFields

-----------------------------------------------------------------------------
(* The slides examined: none or seven of the template's own text shapes at *)
(* their expected positions, followed by up to MaxShapes further shapes    *)
(* taken from ShapeChoices.                                                *)

MaxShapes == 3

\* (left, top) in thousandths of an inch
CandidatePositions ==
    {<<390, 170>>,      \* the title's place
     <<394, 172>>,      \* rounds to the title's place at two decimals
     <<540, 240>>,      \* 0.17 in from the title's place
     <<360, 2060>>,     \* between scope and info
     <<390, 4400>>,     \* between trends and next_steps
     <<3000, 3000>>}    \* far from every expected position

ShapeChoices ==
    {[left |-> p[1], top |-> p[2], has_text_frame |-> TRUE] :
        p \in CandidatePositions}
    \cup {[left |-> 390, top |-> 170, has_text_frame |-> FALSE]}

\* The first k text shapes of the template, each at its expected position
TemplateShapes(k) ==
    [i \in 1..k |->
        [left |-> 10 * EXPECTED_SHAPE_POSITIONS[i].x,
         top |-> 10 * EXPECTED_SHAPE_POSITIONS[i].y,
         has_text_frame |-> TRUE]]

BaseSlides == {<<>>, TemplateShapes(7)}

ExtraShapes ==
    UNION {[1..n -> ShapeChoices] : n \in 0..MaxShapes}

\* Shapes are named by their place in the file
Named(shapes) ==
    [i \in 1..Len(shapes) |->
        [name |-> i, left |-> shapes[i].left, top |-> shapes[i].top,
         has_text_frame |-> shapes[i].has_text_frame]]

Slides == {Named(b \o x) : b \in BaseSlides, x \in ExtraShapes}

-----------------------------------------------------------------------------
(* Specification SpecVerify: verify_template on a template whose slide 0   *)
(* is `slide` (or that has no slide at all).                               *)

InitVerify ==
    /\ \/ n_slides = 0 /\ slide = <<>>
       \/ n_slides = 1 /\ slide \in Slides
    /\ shape_positions = <<>> /\ detected_positions = <<>>
    /\ matched = <<>> /\ drifted = <<>> /\ missing = <<>> /\ new_shapes = <<>>
    /\ matched_count = 0 /\ is_valid = FALSE /\ vt_i = 0
    /\ vt_pc = "start"
    /\ FitIdle /\ PopulateIdle /\ TruncIdle /\ PollIdle
    /\ GenIdle /\ NextStepsIdle /\ GammaIdle

\* len(prs.slides) < 1: return False, ["Template has no slides"], {}, {}
VerifyNoSlides ==
    /\ vt_pc = "start"
    /\ n_slides < 1
    /\ vt_pc' = "done"
    /\ UNCHANGED <<shape_positions, detected_positions, matched, drifted,
                   missing, new_shapes, matched_count, is_valid, vt_i>>
    /\ UNCHANGED <<fit_vars, slide_vars, populate_vars, trunc_vars, poll_vars,
                   gen_vars, ns_vars, gm_vars>>

\* Build shape_positions from the text shapes of slide 0
VerifyCollect ==
    /\ vt_pc = "start"
    /\ n_slides >= 1
    /\ shape_positions' = ShapePositions(slide)
    /\ vt_i' = 1
    /\ vt_pc' = "fields"
    /\ UNCHANGED <<detected_positions, matched, drifted, missing, new_shapes,
                   matched_count, is_valid>>
    /\ UNCHANGED <<fit_vars, slide_vars, populate_vars, trunc_vars, poll_vars,
                   gen_vars, ns_vars, gm_vars>>

\* One iteration of "for field_name, (expected_x, expected_y) in ..."
VerifyField ==
    /\ vt_pc = "fields"
    /\ vt_i <= NumFields
    /\ LET st == VerifyStep([sps |-> shape_positions,
                             detected |-> detected_positions,
                             matched |-> matched, drifted |-> drifted,
                             missing |-> missing, count |-> matched_count],
                            vt_i)
       IN  /\ shape_positions' = st.sps
           /\ detected_positions' = st.detected
           /\ matched' = st.matched
           /\ drifted' = st.drifted
           /\ missing' = st.missing
           /\ matched_count' = st.count
    /\ vt_i' = vt_i + 1
    /\ vt_pc' = IF vt_i = NumFields THEN "new" ELSE "fields"
    /\ UNCHANGED <<new_shapes, is_valid>>
    /\ UNCHANGED <<fit_vars, slide_vars, populate_vars, trunc_vars, poll_vars,
                   gen_vars, ns_vars, gm_vars>>

\* The loop over the unmatched shapes, and is_valid
VerifyFinish ==
    /\ vt_pc = "new"
    /\ new_shapes' = NewShapes(shape_positions)
    /\ is_valid' = IsValid(matched_count)
    /\ vt_pc' = "done"
    /\ UNCHANGED <<shape_positions, detected_positions, matched, drifted,
                   missing, matched_count, vt_i>>
    /\ UNCHANGED <<fit_vars, slide_vars, populate_vars, trunc_vars, poll_vars,
                   gen_vars, ns_vars, gm_vars>>

NextVerify == VerifyNoSlides \/ VerifyCollect \/ VerifyField \/ VerifyFinish

SpecVerify == InitVerify /\ [][NextVerify]_vars

RECURSIVE VerifyFrom(_, _)
\* The report after fields i, i+1, ... are checked in turn
VerifyFrom(st, i) ==
    IF i > NumFields THEN st ELSE VerifyFrom(VerifyStep(st, i), i + 1)

\* The whole of verify_template's matching on slide sl
VerifyRun(sl) == VerifyFrom(VerifyStart(sl), 1)

-----------------------------------------------------------------------------
(* Claims about verify_template.  Distances are those verify_template      *)
(* measures: between an expected position and a shape's position rounded   *)
(* to two decimals.                                                        *)

VerifyDone == vt_pc = "done" /\ n_slides >= 1

\* The fields bound to a shape, as the report lists them
Bound == matched \o drifted

FieldIndex(f) == CHOOSE i \in 1..NumFields : EXPECTED_SHAPE_POSITIONS[i].field = f

Fields == {EXPECTED_SHAPE_POSITIONS[i].field : i \in 1..NumFields}

\* Squared distance of shape k of shape_positions to expected position i
D2(k, i) ==
    Dist2(shape_positions[k].x, shape_positions[k].y,
          EXPECTED_SHAPE_POSITIONS[i].x, EXPECTED_SHAPE_POSITIONS[i].y)

InTol(k, i) == D2(k, i) <= POSITION_TOLERANCE * POSITION_TOLERANCE

Occurrences(seq, P(_)) == Cardinality({k \in 1..Len(seq) : P(seq[k])})

\* C5: no two fields of the report's matched and drifted lists refer to
\* the same shape.
C5_ShapeBoundOnce ==
    \A a, b \in 1..Len(Bound) :
        a # b => Bound[a].shape_name # Bound[b].shape_name

\* A shape is bound to one field although it lies within tolerance of
\* another field as well, which is reported missing
C5_Witness ==
    /\ VerifyDone
    /\ \E k \in 1..Len(shape_positions), i \in 1..NumFields :
          /\ shape_positions[k].matched_to \notin
                {None, EXPECTED_SHAPE_POSITIONS[i].field}
          /\ InTol(k, i)
          /\ \E m \in 1..Len(missing) :
                missing[m].field = EXPECTED_SHAPE_POSITIONS[i].field

C9_NearestOfAllBound ==
    VerifyDone =>
        \A i \in 1..NumFields :
            \A k \in 1..Len(shape_positions) :
                (/\ InTol(k, i)
                 /\ \A j \in 1..Len(shape_positions) : D2(k, i) <= D2(j, i))
                => \E j \in 1..Len(shape_positions) :
                      /\ shape_positions[j].matched_to =
                            EXPECTED_SHAPE_POSITIONS[i].field
                      /\ D2(j, i) = D2(k, i)

\* The shapes not bound to a field checked before field i
FreeAt(i) ==
    {k \in 1..Len(shape_positions) :
        \/ shape_positions[k].matched_to = None
        \/ FieldIndex(shape_positions[k].matched_to) >= i}

\* C9 amended: whenever the nearest of the text shapes not yet bound to an
\* earlier field lies within tolerance, that shape (the first such in
\* enumeration order) is bound to the field; a field is missing only if no
\* text shape still unbound at its turn lies within tolerance.
C9_NearestUnboundBound ==
    VerifyDone =>
        \A i \in 1..NumFields :
            LET f == EXPECTED_SHAPE_POSITIONS[i].field
                near == {k \in FreeAt(i) :
                            /\ InTol(k, i)
                            /\ \A j \in FreeAt(i) :
                                  D2(k, i) < D2(j, i)
                                  \/ (D2(k, i) = D2(j, i) /\ k <= j)}
            IN  /\ \A k \in near : shape_positions[k].matched_to = f
                /\ (\E m \in 1..Len(missing) : missing[m].field = f)
                      => \A k \in FreeAt(i) : ~InTol(k, i)

\* A field is bound to the first of two equally near unbound shapes while
\* the shape nearest to another field went to an earlier field
C9_Witness ==
    /\ VerifyDone
    /\ \E i \in 1..NumFields, k, j \in 1..Len(shape_positions) :
          /\ k < j
          /\ D2(k, i) = D2(j, i)
          /\ shape_positions[k].matched_to = EXPECTED_SHAPE_POSITIONS[i].field
    /\ \E i \in 1..NumFields, k \in 1..Len(shape_positions) :
          /\ InTol(k, i)
          /\ \A j \in 1..Len(shape_positions) : D2(k, i) <= D2(j, i)
          /\ shape_positions[k].matched_to # None
          /\ FieldIndex(shape_positions[k].matched_to) < i

\* C10: the report is a partition.  Every expected field is in exactly one
\* of matched (offset < 0.05), drifted (0.05 <= offset <= 0.3) and missing;
\* detected_positions[field] is None exactly for the missing fields; every
\* text shape of slide 0 is bound to exactly one field or listed in
\* new_shapes, and not both.
C10_ReportIsPartition ==
    VerifyDone =>
        /\ \A f \in Fields :
              LET Is(e) == e.field = f
              IN  Occurrences(matched, Is) + Occurrences(drifted, Is)
                     + Occurrences(missing, Is) = 1
        /\ \A a \in 1..Len(matched) :
              matched[a].offset2 < PERFECT_OFFSET * PERFECT_OFFSET
        /\ \A a \in 1..Len(drifted) :
              /\ drifted[a].offset2 >= PERFECT_OFFSET * PERFECT_OFFSET
              /\ drifted[a].offset2 <= POSITION_TOLERANCE * POSITION_TOLERANCE
        /\ DOMAIN detected_positions = Fields
        /\ \A f \in Fields :
              detected_positions[f] = None
                 <=> \E m \in 1..Len(missing) : missing[m].field = f
        /\ \A s \in 1..Len(slide) :
              slide[s].has_text_frame =>
                 LET Names(e) == e.shape_name = slide[s].name
                     New(e) == e.name = slide[s].name
                 IN  \/ Occurrences(Bound, Names) = 1
                        /\ Occurrences(new_shapes, New) = 0
                     \/ Occurrences(Bound, Names) = 0
                        /\ Occurrences(new_shapes, New) = 1

\* A finished report with a perfect match, a drifted one, a missing field
\* and a new shape
C10_Witness ==
    /\ VerifyDone
    /\ matched # <<>> /\ drifted # <<>> /\ missing # <<>>
    /\ new_shapes # <<>>

\* C11: verify_template reports the template valid exactly when at least 8
\* of the 11 expected fields are bound to a shape, perfectly or drifted.
C11_ValidIffEightBound ==
    vt_pc = "done" => (is_valid <=> Len(matched) + Len(drifted) >= 8)

\* Exactly eight fields are bound, one of them drifted, and the template is
\* reported valid
C11_Witness ==
    /\ VerifyDone
    /\ Len(matched) + Len(drifted) = 8
    /\ Len(drifted) >= 1
    /\ is_valid

-----------------------------------------------------------------------------
(* populate_project_slide: the shape map and find_shape_by_pos             *)

\* The positions populate_project_slide looks up, in hundredths of an inch,
\* in the order of its calls of find_shape_by_pos
POPULATE_TARGETS ==
    << [field |-> "title",        x |-> 39,  y |-> 17],
       [field |-> "date",         x |-> 888, y |-> 8],
       [field |-> "mood_status",  x |-> 39,  y |-> 98],
       [field |-> "scope",        x |-> 35,  y |-> 193],
       [field |-> "info",         x |-> 37,  y |-> 215],
       [field |-> "achievements", x |-> 39,  y |-> 316],
       [field |-> "trends",       x |-> 39,  y |-> 432],
       [field |-> "next_steps",   x |-> 39,  y |-> 453],
       [field |-> "budget",       x |-> 513, y |-> 440],
       [field |-> "made",         x |-> 514, y |-> 100],
       [field |-> "risks",        x |-> 514, y |-> 248] >>

NumTargets == Len(POPULATE_TARGETS)

\* find_shape_by_pos's default tolerance, 0.15 in, in hundredths
FIND_TOLERANCE == 15

\* pos_key of a shape, (round(left, 1), round(top, 1)), in hundredths
PosKey(shape) == <<10 * RoundTo(shape.left, 100), 10 * RoundTo(shape.top, 100)>>

RECURSIVE BuildShapeMap(_, _)
\* shape_map after the shapes sl[1..n] are entered: the dict's items in
\* their order, a key keeping its place when a later shape replaces its value
BuildShapeMap(sl, n) ==
    IF n = 0 THEN <<>>
    ELSE LET m == BuildShapeMap(sl, n - 1)
             shape == sl[n]
             at == {i \in 1..Len(m) : m[i].key = PosKey(shape)}
         IN  IF ~shape.has_text_frame THEN m
             ELSE IF at = {}
                  THEN Append(m, [key |-> PosKey(shape), shape |-> shape.name])
                  ELSE [i \in 1..Len(m) |->
                          IF i \in at THEN [m[i] EXCEPT !.shape = shape.name]
                          ELSE m[i]]

\* best_match = None: no shape (shapes are named from 1)
NoShape == 0

\* find_shape_by_pos(target_x, target_y, tolerance): the shape of the first
\* item of the map at the least distance within tolerance, None without one
find_shape_by_pos(m, target_x, target_y, tolerance) ==
    LET d(i) == Dist2(m[i].key[1], m[i].key[2], target_x, target_y)
        ok == {i \in 1..Len(m) : d(i) <= tolerance * tolerance}
    IN  IF ok = {} THEN NoShape
        ELSE m[CHOOSE i \in ok :
                 \A j \in ok : d(i) < d(j) \/ (d(i) = d(j) /\ i <= j)].shape

\* The shape each target binds to on slide sl
PopulateRun(sl) ==
    LET m == BuildShapeMap(sl, Len(sl))
    IN  [i \in 1..NumTargets |->
            find_shape_by_pos(m, POPULATE_TARGETS[i].x, POPULATE_TARGETS[i].y,
                              FIND_TOLERANCE)]

-----------------------------------------------------------------------------
(* Specification SpecPopulate: populate_project_slide on a slide with the  *)
(* shapes of `slide`.  found[i] is the shape find_shape_by_pos returned    *)
(* for target i; written maps a shape to the field whose text it holds.    *)

InitPopulate ==
    /\ n_slides = 1 /\ slide \in Slides
    /\ shape_map = <<>> /\ found = <<>> /\ written = <<>>
    /\ pp_i = 0 /\ pp_pc = "start"
    /\ FitIdle /\ VerifyIdle /\ TruncIdle /\ PollIdle
    /\ GenIdle /\ NextStepsIdle /\ GammaIdle

PopulateBuildMap ==
    /\ pp_pc = "start"
    /\ shape_map' = BuildShapeMap(slide, Len(slide))
    /\ pp_i' = 1
    /\ pp_pc' = "fields"
    /\ UNCHANGED <<found, written>>
    /\ UNCHANGED <<fit_vars, slide_vars, verify_vars, trunc_vars, poll_vars,
                   gen_vars, ns_vars, gm_vars>>

\* x_shape = find_shape_by_pos(..); if x_shape: set its text
PopulateField ==
    /\ pp_pc = "fields"
    /\ pp_i <= NumTargets
    /\ LET t == POPULATE_TARGETS[pp_i]
           shape == find_shape_by_pos(shape_map, t.x, t.y, FIND_TOLERANCE)
       IN  /\ found' = Append(found, shape)
           /\ written' = IF shape = NoShape THEN written
                         ELSE [n \in DOMAIN written \cup {shape} |->
                                 IF n = shape THEN t.field ELSE written[n]]
    /\ pp_i' = pp_i + 1
    /\ pp_pc' = IF pp_i = NumTargets THEN "done" ELSE "fields"
    /\ UNCHANGED shape_map
    /\ UNCHANGED <<fit_vars, slide_vars, verify_vars, trunc_vars, poll_vars,
                   gen_vars, ns_vars, gm_vars>>

NextPopulate == PopulateBuildMap \/ PopulateField

SpecPopulate == InitPopulate /\ [][NextPopulate]_vars

-----------------------------------------------------------------------------
(* Claims about populate_project_slide and about the order of the shapes.  *)

\* C6: no shape is selected by find_shape_by_pos, and written, for more
\* than one of the eleven fields.
C6_ShapeSelectedOnce ==
    \A i, j \in 1..Len(found) :
        i # j /\ found[i] # NoShape => found[i] # found[j]

\* C8: find_shape_by_pos never returns a shape whose position as read from
\* the file, before rounding, is farther than 0.15 in from the target.
C8_ActualWithinTolerance ==
    \A i \in 1..Len(found) :
        found[i] # NoShape =>
            Dist2(slide[found[i]].left, slide[found[i]].top,
                  10 * POPULATE_TARGETS[i].x, 10 * POPULATE_TARGETS[i].y)
               <= (10 * FIND_TOLERANCE) * (10 * FIND_TOLERANCE)

\* The same shapes enumerated with those at places a and b exchanged
Exchanged(sl, a, b) ==
    [i \in 1..Len(sl) |->
        IF i = a THEN sl[b] ELSE IF i = b THEN sl[a] ELSE sl[i]]

\* verify_template's binding of fields to shapes
VerifyBinding(sps) ==
    {<<sps[k].matched_to, sps[k].name>> :
        k \in {n \in 1..Len(sps) : sps[n].matched_to # None}}

\* C4: the binding of fields to shapes is the same in whatever order the
\* slide enumerates its shapes, in verify_template and in
\* populate_project_slide.  (Every order is reached by exchanging shapes two
\* at a time.)
C4_OrderIndependent ==
    VerifyDone =>
        \A a, b \in 1..Len(slide) :
            /\ VerifyBinding(VerifyRun(Exchanged(slide, a, b)).sps)
                  = VerifyBinding(shape_positions)
            /\ PopulateRun(Exchanged(slide, a, b)) = PopulateRun(slide)

-----------------------------------------------------------------------------
(* poll_generation (scripts/generate_ppt_gamma.py).  A response is a       *)
(* record [status_code, status, error]: the HTTP status code and, of the   *)
(* JSON object in its body, the values of 'status' and 'error' (None when  *)
(* the key is absent).                                                     *)

POLL_INTERVAL_SECONDS == 5
MAX_POLL_ATTEMPTS == 60

Response(code, status, error) ==
    [status_code |-> code, status |-> status, error |-> error]

\* The responses the server may give to a status request
Responses ==
    {Response(200, "completed", None),
     Response(200, "failed", None),
     Response(200, "failed", "quota"),
     Response(200, "pending", None),
     Response(500, "completed", None),
     Response(500, "failed", "quota"),
     Response(500, "pending", None)}

\* for attempt in range(1, MAX_POLL_ATTEMPTS + 1), after `attempt` requests:
\* one request too many
AttemptsLeft_OneMore(attempt) == attempt <= MAX_POLL_ATTEMPTS

\* for attempt in range(1, MAX_POLL_ATTEMPTS + 1), after `attempt` requests
AttemptsLeft(attempt) == attempt < MAX_POLL_ATTEMPTS

IsOk(r) == r.status_code = 200

IsCompleted(r) == r.status = "completed"

\* A failed generation taken for one still running
IsFailed_Never(r) == FALSE

IsFailed(r) == r.status = "failed"

\* f"Generation failed: {result.get('error', 'Unknown error')}"
FailureError(r) ==
    [kind |-> "Generation failed",
     detail |-> IF r.error = None THEN "Unknown error" ELSE r.error,
     seconds |-> 0]

\* f"Timeout after {MAX_POLL_ATTEMPTS * POLL_INTERVAL_SECONDS} seconds"
TimeoutError ==
    [kind |-> "Timeout after", detail |-> "seconds",
     seconds |-> MAX_POLL_ATTEMPTS * POLL_INTERVAL_SECONDS]

InitPoll ==
    /\ poll_attempt = 0 /\ poll_response = NoResponse /\ poll_seen = {}
    /\ poll_result = NoResponse /\ poll_error = NoError
    /\ poll_pc = "loop"
    /\ FitIdle /\ SlideIdle /\ VerifyIdle /\ PopulateIdle
    /\ TruncIdle /\ NextStepsIdle /\ GammaIdle
    /\ GenIdle

\* requests.get(...) of one iteration, answered by r
Request(r) ==
    /\ poll_pc = "loop"
    /\ AttemptsLeft(poll_attempt)
    /\ poll_attempt' = poll_attempt + 1
    /\ poll_response' = r
    /\ poll_seen' = poll_seen \cup {r}

\* status == 'completed': return result, None
PollCompleted ==
    \E r \in Responses :
        /\ Request(r)
        /\ IsOk(r) /\ IsCompleted(r)
        /\ poll_result' = r
        /\ poll_pc' = "returned"
        /\ UNCHANGED poll_error
        /\ UNCHANGED <<fit_vars, slide_vars, verify_vars, populate_vars,
                       trunc_vars, gen_vars, ns_vars, gm_vars>>

\* status == 'failed': return None, f"Generation failed: {error}"
PollFailed ==
    \E r \in Responses :
        /\ Request(r)
        /\ IsOk(r) /\ ~IsCompleted(r) /\ IsFailed(r)
        /\ poll_error' = FailureError(r)
        /\ poll_pc' = "returned"
        /\ UNCHANGED poll_result
        /\ UNCHANGED <<fit_vars, slide_vars, verify_vars, populate_vars,
                       trunc_vars, gen_vars, ns_vars, gm_vars>>

\* Any other status: sleep and go on
PollPending ==
    \E r \in Responses :
        /\ Request(r)
        /\ IsOk(r) /\ ~IsCompleted(r) /\ ~IsFailed(r)
        /\ UNCHANGED <<poll_result, poll_error, poll_pc>>
        /\ UNCHANGED <<fit_vars, slide_vars, verify_vars, populate_vars,
                       trunc_vars, gen_vars, ns_vars, gm_vars>>

\* response.status_code != 200: sleep and go on
PollHttpError ==
    \E r \in Responses :
        /\ Request(r)
        /\ ~IsOk(r)
        /\ UNCHANGED <<poll_result, poll_error, poll_pc>>
        /\ UNCHANGED <<fit_vars, slide_vars, verify_vars, populate_vars,
                       trunc_vars, gen_vars, ns_vars, gm_vars>>

\* The loop is exhausted: return None, f"Timeout after ... seconds"
PollTimeout ==
    /\ poll_pc = "loop"
    /\ ~AttemptsLeft(poll_attempt)
    /\ poll_error' = TimeoutError
    /\ poll_pc' = "returned"
    /\ UNCHANGED <<poll_attempt, poll_response, poll_seen, poll_result>>
    /\ UNCHANGED <<fit_vars, slide_vars, verify_vars, populate_vars,
                   trunc_vars, gen_vars, ns_vars, gm_vars>>

NextPoll ==
    PollCompleted \/ PollFailed \/ PollPending \/ PollHttpError \/ PollTimeout

SpecPoll == InitPoll /\ [][NextPoll]_vars

\* The function runs on: every iteration and the final return are taken
FairSpecPoll == SpecPoll /\ WF_vars(NextPoll)

-----------------------------------------------------------------------------
(* Claims about poll_generation.                                           *)

\* The responses that end the loop: HTTP 200 with status completed or failed
Decisive(r) ==
    r.status_code = 200 /\ r.status \in {"completed", "failed"}

\* C15: poll_generation never issues more than MAX_POLL_ATTEMPTS requests
\* and it terminates; when no request was answered with HTTP 200 and status
\* completed or failed, it has issued exactly MAX_POLL_ATTEMPTS requests and
\* returns (None, timeout error).
C15_BoundedRetry ==
    /\ [](/\ poll_attempt <= MAX_POLL_ATTEMPTS
          /\ poll_pc = "returned" /\ ~(\E r \in poll_seen : Decisive(r))
                => /\ poll_attempt = MAX_POLL_ATTEMPTS
                   /\ poll_result = NoResponse
                   /\ poll_error = TimeoutError)
    /\ <>(poll_pc = "returned")

\* Sixty requests were answered with non-200 responses and with other
\* statuses, both kinds among them, and the call returned the timeout error
C15_Witness ==
    /\ poll_pc = "returned"
    /\ poll_attempt = MAX_POLL_ATTEMPTS
    /\ poll_error = TimeoutError
    /\ \E r \in poll_seen : r.status_code # 200
    /\ \E r \in poll_seen : r.status_code = 200 /\ r.status = "pending"

\* C20: poll_generation returns exactly one non-None component: the result
\* if and only if a request was answered with HTTP 200 and status completed
\* (no HTTP-200 failed response having come before), an error otherwise; and
\* once a request is answered with HTTP 200 and status failed, the call has
\* returned the failure error of that response, with no further request.
C20_ExactlyOneComponent ==
    /\ poll_pc = "returned" =>
          /\ (poll_result = NoResponse) # (poll_error = NoError)
          /\ poll_result # NoResponse
                <=> \E r \in poll_seen :
                        r.status_code = 200 /\ r.status = "completed"
          /\ poll_result # NoResponse => poll_result = poll_response
    /\ \A r \in poll_seen :
          r.status_code = 200 /\ r.status = "failed" =>
              /\ poll_pc = "returned"
              /\ poll_response = r
              /\ poll_error = FailureError(r)
              /\ poll_result = NoResponse
              /\ ~(\E q \in poll_seen :
                      q.status_code = 200 /\ q.status = "completed")

\* After non-200 responses that carried the words completed and failed, a
\* request is answered with HTTP 200 and status failed, and the call returns
\* the failure error
C20_Witness ==
    /\ poll_pc = "returned"
    /\ poll_attempt > 2
    /\ poll_response = Response(200, "failed", "quota")
    /\ poll_error = FailureError(poll_response)
    /\ Response(500, "completed", None) \in poll_seen
    /\ Response(500, "failed", "quota") \in poll_seen

-----------------------------------------------------------------------------
(* generate_ppt, generate_from_template, generate_ppt_simple.  A slide of  *)
(* the deck is a record [kind, index, project]: kind is "template" (a      *)
(* slide of the template file, index its place there), "duplicate" (made   *)
(* by duplicate_slide from the slide at index), "summary" or "data_notes"; *)
(* project is the number (1, 2, ...) of the project whose data             *)
(* populate_project_slide wrote to the slide last, 0 when none.            *)

MaxTemplateSlides == 4
MaxProjects == 4

OutputPath == "output_path"

TemplateSlide(k) == [kind |-> "template", index |-> k, project |-> 0]

\* Presentation(TEMPLATE_PATH).slides for a template of n slides
TemplateDeck(n) == [k \in 1..n |-> TemplateSlide(k - 1)]

\* del slides[i], i a valid 0-based index
DeleteAt(slides, i) ==
    SubSeq(slides, 1, i) \o SubSeq(slides, i + 2, Len(slides))

\* slides.insert(i, s), 0 <= i
InsertAt(slides, i, s) ==
    LET at == Min(i, Len(slides))
    IN  SubSeq(slides, 1, at) \o <<s>> \o SubSeq(slides, at + 1, Len(slides))

\* for slide_idx in [2, 1]: if slide_idx < len(prs.slides): del ...
DeleteBudgetAndPlanning(slides) ==
    LET a == IF 2 < Len(slides) THEN DeleteAt(slides, 2) ELSE slides
    IN  IF 1 < Len(a) THEN DeleteAt(a, 1) ELSE a

\* populate_project_slide(slide, projects[p - 1], ...)
Populated(s, p) == [s EXCEPT !.project = p]

\* duplicate_slide: a new slide at the end, with copies of the shapes of the
\* slide at slide_index as they are now
duplicate_slide(slides, slide_index) ==
    Append(slides, [kind |-> "duplicate", index |-> slide_index,
                    project |-> slides[slide_index + 1].project])

\* The slide is left where it is
move_slide_to_position_Stay(slides, from_index, to_index) == slides

move_slide_to_position(slides, from_index, to_index) ==
    InsertAt(DeleteAt(slides, from_index), to_index, slides[from_index + 1])

SummarySlide == [kind |-> "summary", index |-> 0, project |-> 0]
DataNotesSlide == [kind |-> "data_notes", index |-> 0, project |-> 0]

\* A project of the data file, as far as track_project_unfilled reads it;
\* None stands for a missing key and for a null value
Project(name, description_text, end_date, capex_initial, capex_used) ==
    [name |-> name, description_text |-> description_text,
     end_date |-> end_date, budget_capex_initial |-> capex_initial,
     budget_capex_used |-> capex_used]

\* Project number i with everything filled, with nothing filled, and with
\* no description and only the used budget
ProjectChoices(i) ==
    {Project(i, "text", "2026-06-30", "100", "40"),
     Project(i, "", None, None, None),
     Project(i, None, "2026-06-30", None, "40")}

ProjectLists(n) ==
    {ps \in [1..n -> UNION {ProjectChoices(i) : i \in 1..n}] :
        \A i \in 1..n : ps[i] \in ProjectChoices(i)}

\* "not value" for a string or None
Falsy(value) == value \in {None, ""}

\* track_unfilled_field: UNFILLED_FIELDS.append({...})
track_unfilled_field(unfilled, project_name, field_name, reason) ==
    Append(unfilled,
           [project |-> project_name, field |-> field_name, reason |-> reason])

track_project_unfilled(unfilled, project) ==
    LET a == IF Falsy(project.description_text)
             THEN track_unfilled_field(unfilled, project.name, "Description",
                                       "Non renseigné")
             ELSE unfilled
        b == IF Falsy(project.end_date)
             THEN track_unfilled_field(a, project.name, "End date",
                                       "Non renseigné")
             ELSE a
    IN  IF /\ project.budget_capex_initial = None
           /\ project.budget_capex_used = None
        THEN track_unfilled_field(b, project.name, "Budget",
                                  "Non renseigné dans AirSaas")
        ELSE b

\* What an earlier run in the same process may have left in UNFILLED_FIELDS
EarlierUnfilled ==
    {<<>>,
     track_project_unfilled(<<>>, Project(0, "", None, None, None))}

\* The extraction left out
extract_all_template_styles_Skipped(extracted) == extracted

\* TEMPLATE_STYLES['extracted'] after extract_all_template_styles: it returns
\* at once when the flag is set, and sets it otherwise
extract_all_template_styles(extracted) ==
    IF extracted THEN extracted ELSE TRUE

InitGenerate ==
    /\ \/ template_exists = TRUE /\ template_slides \in 0..MaxTemplateSlides
       \/ template_exists = FALSE /\ template_slides = 0
    /\ num_projects \in 0..MaxProjects
    /\ projects \in ProjectLists(num_projects)
    /\ UNFILLED_FIELDS \in EarlierUnfilled
    /\ styles_extracted \in BOOLEAN
    /\ prs_slides = <<>> /\ gen_idx = 0 /\ saved_slides = <<>>
    /\ gen_result = None /\ gen_raised = None
    /\ gen_pc = "start"
    /\ FitIdle /\ SlideIdle /\ VerifyIdle /\ PopulateIdle
    /\ TruncIdle /\ NextStepsIdle /\ GammaIdle
    /\ PollIdle

\* generate_ppt with the template present; generate_from_template up to
\* prs = Presentation(TEMPLATE_PATH) (verify_template only prints)
LoadTemplate ==
    /\ gen_pc = "start"
    /\ template_exists
    /\ prs_slides' = TemplateDeck(template_slides)
    /\ gen_pc' = "loaded"
    /\ UNCHANGED <<template_exists, template_slides, num_projects, gen_idx,
                   saved_slides, gen_result, gen_raised>>
    /\ UNFILLED_FIELDS' = <<>>
    /\ UNCHANGED <<projects, styles_extracted>>
    /\ UNCHANGED <<fit_vars, slide_vars, verify_vars, populate_vars,
                   trunc_vars, poll_vars, ns_vars, gm_vars>>

\* if not projects: return None
ReturnNoProjects ==
    /\ gen_pc = "loaded"
    /\ num_projects = 0
    /\ gen_result' = None
    /\ gen_pc' = "returned"
    /\ UNCHANGED <<template_exists, template_slides, num_projects, prs_slides,
                   gen_idx, saved_slides, gen_raised>>
    /\ UNCHANGED <<projects, UNFILLED_FIELDS, styles_extracted>>
    /\ UNCHANGED <<fit_vars, slide_vars, verify_vars, populate_vars,
                   trunc_vars, poll_vars, ns_vars, gm_vars>>

\* template_slide = prs.slides[0]; extract_all_template_styles(...)
ExtractStyles ==
    /\ gen_pc = "loaded"
    /\ num_projects > 0
    /\ Len(prs_slides) > 0
    /\ gen_pc' = "delete"
    /\ UNCHANGED <<template_exists, template_slides, num_projects, prs_slides,
                   gen_idx, saved_slides, gen_result, gen_raised>>
    /\ styles_extracted' = extract_all_template_styles(FALSE)
    /\ UNCHANGED <<projects, UNFILLED_FIELDS>>
    /\ UNCHANGED <<fit_vars, slide_vars, verify_vars, populate_vars,
                   trunc_vars, poll_vars, ns_vars, gm_vars>>

\* prs.slides[0] on a template without slides
ExtractStylesNoSlide ==
    /\ gen_pc = "loaded"
    /\ num_projects > 0
    /\ Len(prs_slides) = 0
    /\ gen_raised' = "IndexError"
    /\ gen_pc' = "raised"
    /\ UNCHANGED <<template_exists, template_slides, num_projects, prs_slides,
                   gen_idx, saved_slides, gen_result>>
    /\ styles_extracted' = FALSE
    /\ UNCHANGED <<projects, UNFILLED_FIELDS>>
    /\ UNCHANGED <<fit_vars, slide_vars, verify_vars, populate_vars,
                   trunc_vars, poll_vars, ns_vars, gm_vars>>

DeleteTemplateSlides ==
    /\ gen_pc = "delete"
    /\ prs_slides' = DeleteBudgetAndPlanning(prs_slides)
    /\ gen_pc' = "first"
    /\ UNCHANGED <<template_exists, template_slides, num_projects, gen_idx,
                   saved_slides, gen_result, gen_raised>>
    /\ UNCHANGED <<projects, UNFILLED_FIELDS, styles_extracted>>
    /\ UNCHANGED <<fit_vars, slide_vars, verify_vars, populate_vars,
                   trunc_vars, poll_vars, ns_vars, gm_vars>>

\* populate_project_slide(prs.slides[0], projects[0], reference_data)
PopulateFirst ==
    /\ gen_pc = "first"
    /\ prs_slides' = [prs_slides EXCEPT ![1] = Populated(@, 1)]
    /\ gen_idx' = 1
    /\ gen_pc' = "more"
    /\ UNCHANGED <<template_exists, template_slides, num_projects,
                   saved_slides, gen_result, gen_raised>>
    /\ UNFILLED_FIELDS' = track_project_unfilled(UNFILLED_FIELDS, projects[1])
    /\ UNCHANGED <<projects, styles_extracted>>
    /\ UNCHANGED <<fit_vars, slide_vars, verify_vars, populate_vars,
                   trunc_vars, poll_vars, ns_vars, gm_vars>>

\* One iteration of "for idx, proj_data in enumerate(projects[1:], start=1)"
DuplicateAndPopulate ==
    /\ gen_pc = "more"
    /\ gen_idx < num_projects
    /\ LET dup == duplicate_slide(prs_slides, 0)
       IN  prs_slides' = [dup EXCEPT ![Len(dup)] = Populated(@, gen_idx + 1)]
    /\ gen_idx' = gen_idx + 1
    /\ UNCHANGED <<template_exists, template_slides, num_projects,
                   saved_slides, gen_result, gen_raised, gen_pc>>
    /\ UNFILLED_FIELDS' =
          track_project_unfilled(UNFILLED_FIELDS, projects[gen_idx + 1])
    /\ UNCHANGED <<projects, styles_extracted>>
    /\ UNCHANGED <<fit_vars, slide_vars, verify_vars, populate_vars,
                   trunc_vars, poll_vars, ns_vars, gm_vars>>

\* create_summary_slide_on_template: prs.slides.add_slide(...)
CreateSummary ==
    /\ gen_pc = "more"
    /\ gen_idx >= num_projects
    /\ prs_slides' = Append(prs_slides, SummarySlide)
    /\ gen_pc' = "notes"
    /\ UNCHANGED <<template_exists, template_slides, num_projects, gen_idx,
                   saved_slides, gen_result, gen_raised>>
    /\ UNCHANGED <<projects, UNFILLED_FIELDS, styles_extracted>>
    /\ UNCHANGED <<fit_vars, slide_vars, verify_vars, populate_vars,
                   trunc_vars, poll_vars, ns_vars, gm_vars>>

\* create_data_notes_slide: prs.slides.add_slide(...)
CreateDataNotes ==
    /\ gen_pc = "notes"
    /\ prs_slides' = Append(prs_slides, DataNotesSlide)
    /\ gen_pc' = "move"
    /\ UNCHANGED <<template_exists, template_slides, num_projects, gen_idx,
                   saved_slides, gen_result, gen_raised>>
    /\ UNCHANGED <<projects, UNFILLED_FIELDS, styles_extracted>>
    /\ UNCHANGED <<fit_vars, slide_vars, verify_vars, populate_vars,
                   trunc_vars, poll_vars, ns_vars, gm_vars>>

\* move_slide_to_position(prs, len(prs.slides) - 2, 0)
MoveSummary ==
    /\ gen_pc = "move"
    /\ prs_slides' = move_slide_to_position(prs_slides, Len(prs_slides) - 2, 0)
    /\ gen_pc' = "save"
    /\ UNCHANGED <<template_exists, template_slides, num_projects, gen_idx,
                   saved_slides, gen_result, gen_raised>>
    /\ UNCHANGED <<projects, UNFILLED_FIELDS, styles_extracted>>
    /\ UNCHANGED <<fit_vars, slide_vars, verify_vars, populate_vars,
                   trunc_vars, poll_vars, ns_vars, gm_vars>>

\* prs.save(output_path); return output_path
SaveAndReturn ==
    /\ gen_pc = "save"
    /\ saved_slides' = prs_slides
    /\ gen_result' = OutputPath
    /\ gen_pc' = "returned"
    /\ UNCHANGED <<template_exists, template_slides, num_projects, prs_slides,
                   gen_idx, gen_raised>>
    /\ UNCHANGED <<projects, UNFILLED_FIELDS, styles_extracted>>
    /\ UNCHANGED <<fit_vars, slide_vars, verify_vars, populate_vars,
                   trunc_vars, poll_vars, ns_vars, gm_vars>>

\* generate_ppt without the template; generate_ppt_simple up to
\* prs = Presentation()
SimpleStart ==
    /\ gen_pc = "start"
    /\ ~template_exists
    /\ prs_slides' = <<>>
    /\ gen_pc' = "simple_summary"
    /\ UNCHANGED <<template_exists, template_slides, num_projects, gen_idx,
                   saved_slides, gen_result, gen_raised>>
    /\ UNFILLED_FIELDS' = <<>>
    /\ UNCHANGED <<projects, styles_extracted>>
    /\ UNCHANGED <<fit_vars, slide_vars, verify_vars, populate_vars,
                   trunc_vars, poll_vars, ns_vars, gm_vars>>

\* create_summary_slide(prs, projects, reference_data): the module defines no
\* function of that name (only create_summary_slide_on_template)
SimpleSummaryUndefined ==
    /\ gen_pc = "simple_summary"
    /\ gen_raised' = "NameError"
    /\ gen_pc' = "raised"
    /\ UNCHANGED <<template_exists, template_slides, num_projects, prs_slides,
                   gen_idx, saved_slides, gen_result>>
    /\ UNCHANGED <<projects, UNFILLED_FIELDS, styles_extracted>>
    /\ UNCHANGED <<fit_vars, slide_vars, verify_vars, populate_vars,
                   trunc_vars, poll_vars, ns_vars, gm_vars>>

NextGenerate ==
    \/ LoadTemplate \/ ReturnNoProjects \/ ExtractStyles
    \/ ExtractStylesNoSlide \/ DeleteTemplateSlides \/ PopulateFirst
    \/ DuplicateAndPopulate \/ CreateSummary \/ CreateDataNotes
    \/ MoveSummary \/ SaveAndReturn \/ SimpleStart \/ SimpleSummaryUndefined

SpecGenerate == InitGenerate /\ [][NextGenerate]_vars

-----------------------------------------------------------------------------
(* Claims about the deck.                                                  *)

\* The deck is a Summary slide, then one slide holding each of the projects
\* 1..n in that order, then a Data Notes slide
IsReportDeck(deck, n) ==
    /\ Len(deck) = n + 2
    /\ deck[1].kind = "summary"
    /\ \A i \in 1..n :
          /\ deck[i + 1].kind \in {"template", "duplicate"}
          /\ deck[i + 1].project = i
    /\ deck[n + 2].kind = "data_notes"

\* The call is over: it returned or it raised
GenOver == gen_pc \in {"returned", "raised"}

\* C16: for a template of one to three slides and n >= 1 projects, the deck
\* saved by generate_from_template has n + 2 slides: Summary, the n project
\* slides in input order, Data Notes.
C16_SavedDeckOrder ==
    /\ GenOver
    /\ template_exists
    /\ template_slides \in 1..3
    /\ num_projects >= 1
    => /\ gen_pc = "returned"
       /\ gen_result = OutputPath
       /\ IsReportDeck(saved_slides, num_projects)

\* A template of three slides and at least two projects: the deck is saved
\* with the Summary slide moved from the last place but one to the front
C16_Witness ==
    /\ gen_pc = "returned"
    /\ template_exists
    /\ template_slides = 3
    /\ num_projects >= 2
    /\ Len(saved_slides) = num_projects + 2
    /\ saved_slides[1] = SummarySlide
    /\ saved_slides[3].kind = "duplicate"

\* C17: without a template file generate_ppt runs generate_ppt_simple to
\* completion: a deck of Summary, one slide per project in input order and
\* Data Notes is saved and the output path is returned.
C17_SimpleFallbackCompletes ==
    GenOver /\ ~template_exists
    => /\ gen_pc = "returned"
       /\ gen_result = OutputPath
       /\ IsReportDeck(saved_slides, num_projects)

\* C24: after the deletion of the Budget and Planning slides the
\* presentation holds exactly one slide, the original slide 0, whatever the
\* number (at least one) of slides of the template.
C24_OnlySlideZeroLeft ==
    gen_pc = "first" /\ template_slides >= 1
        => prs_slides = <<TemplateSlide(0)>>

\* Some slide of the deck has had text written to it: a slide populated
\* with a project, the Summary slide or the Data Notes slide
TextWritten ==
    \E i \in 1..Len(prs_slides) :
        \/ prs_slides[i].project # 0
        \/ prs_slides[i].kind \in {"summary", "data_notes"}

\* The next step of generate_from_template calls populate_project_slide
PopulateNext ==
    \/ gen_pc = "first"
    \/ gen_pc = "more" /\ gen_idx < num_projects

\* C22: in generate_from_template no text is written to a slide before the
\* template styles are extracted, and populate_project_slide is only called
\* while TEMPLATE_STYLES['extracted'] is true.
C22_StylesBeforeText ==
    /\ TextWritten => styles_extracted
    /\ PopulateNext => styles_extracted

\* The second project is about to be written to a duplicate, the first
\* already being on slide 0, with the styles extracted
C22_Witness ==
    /\ gen_pc = "more"
    /\ gen_idx = 1
    /\ num_projects >= 2
    /\ prs_slides[1].project = 1
    /\ styles_extracted

\* The entries track_project_unfilled appends for one project
EntriesOf(project) ==
    (IF project.description_text \in {None, ""}
     THEN <<[project |-> project.name, field |-> "Description",
             reason |-> "Non renseigné"]>>
     ELSE <<>>)
    \o (IF project.end_date \in {None, ""}
        THEN <<[project |-> project.name, field |-> "End date",
                reason |-> "Non renseigné"]>>
        ELSE <<>>)
    \o (IF project.budget_capex_initial = None
           /\ project.budget_capex_used = None
        THEN <<[project |-> project.name, field |-> "Budget",
                reason |-> "Non renseigné dans AirSaas"]>>
        ELSE <<>>)

RECURSIVE EntriesOfAll(_)
EntriesOfAll(ps) ==
    IF ps = <<>> THEN <<>> ELSE EntriesOf(Head(ps)) \o EntriesOfAll(Tail(ps))

\* C23: at the end of every run, whatever earlier runs left behind,
\* UNFILLED_FIELDS holds exactly the entries of the current run's projects,
\* in project order.
C23_UnfilledOfThisRun ==
    GenOver => UNFILLED_FIELDS = EntriesOfAll(projects)

\* The same, for the runs of generate_from_template that save a deck
UnfilledAfterSavedTemplateRun ==
    gen_pc = "returned" /\ template_exists
        => UNFILLED_FIELDS = EntriesOfAll(projects)

\* ---------------------------------------------------------------------
\* populate_project_slide, the "Next steps" block (generate_ppt.py
\* 1621-1657).  A decision is a dict with a status, an optional 'title'
\* key and an optional 'name'; a milestone is a dict with a status and a
\* name.  has_title says whether the 'title' key is present.
\* ---------------------------------------------------------------------
MaxItems == 4

NEXT_ITEM_CHARS == 45

Digits == <<"1", "2", "3", "4", "5", "6">>

LongTitle == Rep("a", 40) \o <<" ">> \o Rep("b", 8)

Decision(status, has_title, title, name) ==
    [status |-> status, has_title |-> has_title, title |-> title,
     name |-> name]

Milestone(status, name) == [status |-> status, name |-> name]

\* The i-th decision of a project: its title carries its position.
DecisionChoices(i) ==
    { Decision("pending", TRUE, <<"p", Digits[i]>>, <<>>),
      Decision("pending", TRUE, <<>>, <<"n", Digits[i]>>),
      Decision("pending", TRUE, LongTitle \o <<Digits[i]>>, <<>>),
      Decision("taken", TRUE, <<"t", Digits[i]>>, <<>>),
      Decision("actions-done", FALSE, <<>>, <<"d", Digits[i]>>),
      Decision("taken", TRUE, <<>>, <<>>) }

MilestoneChoices(i) ==
    { Milestone("done", <<"x", Digits[i]>>),
      Milestone("planned", <<"m", Digits[i]>>),
      Milestone("planned", <<>>),
      Milestone("in-progress", LongTitle \o <<Digits[i]>>) }

DecisionLists ==
    UNION { { ds \in [1..n -> UNION {DecisionChoices(i) : i \in 1..n}] :
                \A i \in 1..n : ds[i] \in DecisionChoices(i) } :
            n \in 0..MaxItems }

MilestoneLists ==
    UNION { { ms \in [1..n -> UNION {MilestoneChoices(i) : i \in 1..n}] :
                \A i \in 1..n : ms[i] \in MilestoneChoices(i) } :
            n \in 0..MaxItems }

\* d.get('title', d.get('name', ''))
TitleOf(d) == IF d.has_title THEN d.title ELSE d.name

IsPendingNotTaken(d) == d.status # "taken"

IsPending(d) == d.status \notin {"taken", "actions-done"}

\* [d for d in decisions if d.get('status') not in [...]] if decisions
\* else []
pending_decisions_DoneIncluded(ds) == SelectSeq(ds, IsPendingNotTaken)

pending_decisions(ds) == SelectSeq(ds, IsPending)

IsUpcoming(m) == m.status # "done"

\* [m for m in milestones if m.get('status') != 'done'] if milestones
\* else []
upcoming(ms) == SelectSeq(ms, IsUpcoming)

\* for d in chosen[:3]: if title: next_items.append(truncate_text(title, 45))
RECURSIVE AppendTitles(_, _)
AppendTitles(items, titles) ==
    IF titles = <<>> THEN items
    ELSE AppendTitles(
             IF Head(titles) # <<>>
             THEN Append(items,
                         truncate_text(Head(titles), NEXT_ITEM_CHARS,
                                       Ellipsis))
             ELSE items,
             Tail(titles))

DecisionTitles(ds) == [i \in 1..Len(ds) |-> TitleOf(ds[i])]

MilestoneNames(ms) == [i \in 1..Len(ms) |-> ms[i].name]

NoPendingItem ==
    << "N","o"," ","p","e","n","d","i","n","g"," ","d","e","c","i","s",
       "i","o","n","s"," ","o","r"," ","m","i","l","e","s","t","o","n",
       "e","s" >>

\* Lines 1623-1648: the list handed to set_shape_text_with_structure.
next_steps(ds, ms) ==
    LET collected ==
            IF pending_decisions(ds) # <<>>
            THEN AppendTitles(<<>>,
                     DecisionTitles(PySliceTo(pending_decisions(ds), 3)))
            ELSE IF ds # <<>>
            THEN AppendTitles(<<>>, DecisionTitles(PySliceTo(ds, 3)))
            ELSE IF upcoming(ms) # <<>>
            THEN AppendTitles(<<>>,
                     MilestoneNames(PySliceTo(upcoming(ms), 3)))
            ELSE <<>>
    IN  IF collected = <<>> THEN <<NoPendingItem>> ELSE collected

\* The milestones matter only when there is no decision, so the full
\* milestone lists are paired with the empty decision list and every
\* decision list with two short milestone lists.
InitNextSteps ==
    /\ \/ /\ decisions \in DecisionLists
          /\ milestones \in {<<>>, <<Milestone("planned", <<"m", "1">>)>>}
       \/ /\ decisions = <<>>
          /\ milestones \in MilestoneLists
    /\ next_shape \in BOOLEAN
    /\ next_items = <<>>
    /\ ns_pc = "start"
    /\ FitIdle /\ SlideIdle /\ VerifyIdle /\ PopulateIdle /\ TruncIdle
    /\ PollIdle /\ GenIdle /\ GammaIdle

\* if next_shape: ... set_shape_text_with_structure(next_shape, next_items)
WriteNextSteps ==
    /\ ns_pc = "start"
    /\ next_shape
    /\ next_items' = next_steps(decisions, milestones)
    /\ ns_pc' = "done"
    /\ UNCHANGED <<decisions, milestones, next_shape>>
    /\ UNCHANGED <<fit_vars, slide_vars, verify_vars, populate_vars,
                   trunc_vars, poll_vars, gen_vars, gm_vars>>

\* find_shape_by_pos(0.39, 4.53) found no shape: the block is skipped.
SkipNextSteps ==
    /\ ns_pc = "start"
    /\ ~next_shape
    /\ ns_pc' = "done"
    /\ UNCHANGED <<decisions, milestones, next_shape, next_items>>
    /\ UNCHANGED <<fit_vars, slide_vars, verify_vars, populate_vars,
                   trunc_vars, poll_vars, gen_vars, gm_vars>>

NextNextSteps == WriteNextSteps \/ SkipNextSteps

SpecNextSteps == InitNextSteps /\ [][NextNextSteps]_vars

\* The non-empty titles among the first three entries of a list.
TitledAmongFirstThree(titles) ==
    SelectSeq(SubSeq(titles, 1, IF Len(titles) < 3 THEN Len(titles) ELSE 3),
              LAMBDA t : t # <<>>)

\* The titles the priority rule selects.
ChosenTitles ==
    IF \E i \in 1..Len(decisions) : IsPending(decisions[i])
    THEN TitledAmongFirstThree(
             DecisionTitles(SelectSeq(decisions, IsPending)))
    ELSE IF Len(decisions) > 0
    THEN TitledAmongFirstThree(DecisionTitles(decisions))
    ELSE TitledAmongFirstThree(
             MilestoneNames(SelectSeq(milestones, IsUpcoming)))

\* An item shows a title: the title itself when it has at most 45
\* characters, otherwise a prefix of it followed by the ellipsis.
Shows(item, title) ==
    IF Len(title) <= NEXT_ITEM_CHARS THEN item = title
    ELSE /\ EndsWith(item, Ellipsis)
         /\ Len(item) <= NEXT_ITEM_CHARS
         /\ \A k \in 1..(Len(item) - Len(Ellipsis)) : item[k] = title[k]

\* C25: the next-steps items are chosen by strict priority (the first
\* three pending decisions, else the first three decisions, else the
\* first three milestones that are not done), entries with an empty title
\* are skipped, an empty result becomes the single item 'No pending
\* decisions or milestones', and the list has 1 to 3 items of at most 45
\* characters each.
C25_NextStepsPriority ==
    ns_pc = "done" /\ next_shape =>
        /\ Len(next_items) \in 1..3
        /\ \A i \in 1..Len(next_items) : Len(next_items[i]) <= NEXT_ITEM_CHARS
        /\ IF ChosenTitles = <<>> THEN next_items = <<NoPendingItem>>
           ELSE /\ Len(next_items) = Len(ChosenTitles)
                /\ \A i \in 1..Len(next_items) :
                       Shows(next_items[i], ChosenTitles[i])

\* Four pending decisions, the first without a title and the second with
\* a title of more than 45 characters: two items, the first one cut.
C25_Witness ==
    /\ ns_pc = "done" /\ next_shape
    /\ Len(pending_decisions(decisions)) = 4
    /\ Len(decisions[2].title) > NEXT_ITEM_CHARS
    /\ Len(next_items) = 2
    /\ EndsWith(next_items[1], Ellipsis)
    /\ next_items[2] = <<"p", "3">>

-----------------------------------------------------------------------------
(* main of the Gamma client (scripts/generate_ppt_gamma.py 419-515) with   *)
(* call_gamma_api (325-356) and download_pptx (394-412).  posts, the       *)
(* status requests counted by poll_attempt, and downloads count the HTTP    *)
(* requests issued; exit_status is the status the process terminates with. *)

\* What the server may answer to the POST of call_gamma_api: the HTTP status
\* code and the value of 'generationId' in the body (None when absent).
StartResponse(code, id) == [status_code |-> code, generationId |-> id]

StartResponses ==
    {StartResponse(200, "gen-1"), StartResponse(201, "gen-1"),
     StartResponse(200, None), StartResponse(401, None),
     StartResponse(500, "gen-1")}

\* The values of 'exportUrl' in a completed result (None when absent)
ExportUrls == {None, "", "https://export"}

\* The HTTP status codes of the download
DownloadCodes == {200, 404}

\* response.status_code in [200, 201]
StartAccepted(r) == r.status_code \in {200, 201}

\* call_gamma_api: (generation_id, None) or (None, "HTTP <code>: <text>")
call_gamma_api(r) ==
    IF StartAccepted(r)
    THEN [generation_id |-> r.generationId, error |-> None]
    ELSE [generation_id |-> None, error |-> "HTTP"]

\* download_pptx: (True, None) or (False, "Download failed: HTTP <code>")
download_pptx(code) ==
    IF code = 200 THEN [success |-> TRUE, error |-> None]
    ELSE [success |-> FALSE, error |-> "Download failed"]

InitGamma ==
    /\ GAMMA_API_KEY \in BOOLEAN
    /\ data_found \in BOOLEAN
    /\ generation_id = None /\ gm_error = None /\ export_url = None
    /\ posts = 0 /\ downloads = 0 /\ exit_status = Running
    /\ gm_pc = "start"
    /\ FitIdle /\ SlideIdle /\ VerifyIdle /\ PopulateIdle /\ TruncIdle
    /\ PollIdle /\ GenIdle /\ NextStepsIdle

\* if not GAMMA_API_KEY: sys.exit(1)
MissingApiKey ==
    /\ gm_pc = "start"
    /\ ~GAMMA_API_KEY
    /\ exit_status' = 1
    /\ gm_pc' = "exited"
    /\ UNCHANGED <<GAMMA_API_KEY, data_found, generation_id, gm_error,
                   export_url, posts, downloads>>
    /\ UNCHANGED <<fit_vars, slide_vars, verify_vars, populate_vars,
                   trunc_vars, poll_vars, gen_vars, ns_vars>>

\* except FileNotFoundError: sys.exit(1)
MissingDataFile ==
    /\ gm_pc = "start"
    /\ GAMMA_API_KEY
    /\ ~data_found
    /\ exit_status' = 1
    /\ gm_pc' = "exited"
    /\ UNCHANGED <<GAMMA_API_KEY, data_found, generation_id, gm_error,
                   export_url, posts, downloads>>
    /\ UNCHANGED <<fit_vars, slide_vars, verify_vars, populate_vars,
                   trunc_vars, poll_vars, gen_vars, ns_vars>>

\* generation_id, error = call_gamma_api(...); if error: sys.exit(1);
\* otherwise poll_generation is entered.
StartGeneration ==
    /\ gm_pc = "start"
    /\ GAMMA_API_KEY
    /\ data_found
    /\ \E r \in StartResponses :
        /\ posts' = posts + 1
        /\ generation_id' = call_gamma_api(r).generation_id
        /\ gm_error' = call_gamma_api(r).error
        /\ IF call_gamma_api(r).error # None
           THEN /\ exit_status' = 1
                /\ gm_pc' = "exited"
                /\ UNCHANGED poll_vars
           ELSE /\ gm_pc' = "polling"
                /\ poll_pc' = "loop"
                /\ UNCHANGED <<poll_attempt, poll_response, poll_seen,
                               poll_result, poll_error, exit_status>>
    /\ UNCHANGED <<GAMMA_API_KEY, data_found, export_url, downloads>>
    /\ UNCHANGED <<fit_vars, slide_vars, verify_vars, populate_vars,
                   trunc_vars, gen_vars, ns_vars>>

\* One step of poll_generation, called from main
PollStep ==
    /\ gm_pc = "polling"
    /\ NextPoll

\* result, error = poll_generation(...); if error: sys.exit(1)
PollError ==
    /\ gm_pc = "polling"
    /\ poll_pc = "returned"
    /\ poll_error # NoError
    /\ gm_error' = poll_error.kind
    /\ exit_status' = 1
    /\ gm_pc' = "exited"
    /\ UNCHANGED <<GAMMA_API_KEY, data_found, generation_id, export_url,
                   posts, downloads>>
    /\ UNCHANGED <<fit_vars, slide_vars, verify_vars, populate_vars,
                   trunc_vars, poll_vars, gen_vars, ns_vars>>

\* export_url = result.get('exportUrl'); if export_url:
\* success, error = download_pptx(export_url, output_path);
\* if not success: sys.exit(1); ...; return 0
Download ==
    /\ gm_pc = "polling"
    /\ poll_pc = "returned"
    /\ poll_error = NoError
    /\ \E url \in ExportUrls \ {None, ""}, code \in DownloadCodes :
        /\ export_url' = url
        /\ downloads' = downloads + 1
        /\ gm_error' = download_pptx(code).error
        /\ exit_status' = IF download_pptx(code).success THEN 0 ELSE 1
    /\ gm_pc' = "exited"
    /\ UNCHANGED <<GAMMA_API_KEY, data_found, generation_id, posts>>
    /\ UNCHANGED <<fit_vars, slide_vars, verify_vars, populate_vars,
                   trunc_vars, poll_vars, gen_vars, ns_vars>>

\* export_url is missing or empty: the warning is printed and
\* print(f"\nOutput: {output_path}") reads the unassigned output_path; the
\* UnboundLocalError ends the process with status 1.
NoExportUrl ==
    /\ gm_pc = "polling"
    /\ poll_pc = "returned"
    /\ poll_error = NoError
    /\ \E url \in {None, ""} : export_url' = url
    /\ gm_error' = poll_error.kind
    /\ exit_status' = 1
    /\ gm_pc' = "exited"
    /\ UNCHANGED <<GAMMA_API_KEY, data_found, generation_id, posts,
                   downloads>>
    /\ UNCHANGED <<fit_vars, slide_vars, verify_vars, populate_vars,
                   trunc_vars, poll_vars, gen_vars, ns_vars>>

NextGamma ==
    \/ MissingApiKey \/ MissingDataFile \/ StartGeneration
    \/ PollStep \/ PollError \/ Download \/ NoExportUrl

SpecGamma == InitGamma /\ [][NextGamma]_vars

-----------------------------------------------------------------------------
(* Claims about main of the Gamma client.                                  *)

\* A status request was issued only after the POST, with a generation id
StatusAfterStartWithId ==
    poll_attempt > 0 => posts = 1 /\ generation_id # None

\* A status request was issued only after a POST that was accepted
StatusAfterAcceptedStart ==
    poll_attempt > 0 => posts = 1 /\ gm_pc # "start" /\ gm_error # "HTTP"

\* A download was issued only after polling returned a completed result
DownloadAfterCompleted ==
    downloads > 0 =>
        /\ poll_attempt > 0 /\ poll_pc = "returned"
        /\ poll_error = NoError
        /\ IsOk(poll_result) /\ IsCompleted(poll_result)

\* Each failure ends the process with status 1 and no later step is taken
FailureExitsOne ==
    /\ exit_status # Running <=> gm_pc = "exited"
    /\ gm_pc # "start" /\ ~(GAMMA_API_KEY /\ data_found) =>
           exit_status = 1 /\ posts = 0 /\ poll_attempt = 0 /\ downloads = 0
    /\ gm_error = "HTTP" =>
           exit_status = 1 /\ poll_attempt = 0 /\ downloads = 0
    /\ poll_error # NoError => downloads = 0
    /\ poll_error # NoError /\ gm_pc = "exited" => exit_status = 1
    /\ gm_error = "Download failed" => exit_status = 1

\* C21: in main the steps occur in the order start-generation, poll,
\* download: no status request is issued unless call_gamma_api returned a
\* generation id without error, no download is issued unless polling
\* returned a completed result, and a failure of any step (missing API key,
\* missing data file, start error, poll failure or timeout, download
\* failure) ends the process with exit status 1 and no later step.
C21_StepsInOrder ==
    /\ StatusAfterStartWithId
    /\ DownloadAfterCompleted
    /\ FailureExitsOne

=============================================================================
